---- MODULE Spec2Model ----
(***************************************************************************)
(* Model of src/app.py: a Streamlit script that reads an uploaded CSV,     *)
(* lets the user pick a date column and a target column, and on the        *)
(* "Confirm selection and process file" button converts the dates, builds  *)
(* the canonical (ds, y) frame, fits Prophet, forecasts 3 month starts     *)
(* ahead, filters to [last - 5 months, last + 3 months] and exports.       *)
(*                                                                         *)
(* Streamlit re-executes the whole script on every interaction, so each    *)
(* action below is one execution of the script from line 24 to its end.    *)
(*                                                                         *)
(* Values.  A cell is a record [k, n]: k is its kind and n a tuple of      *)
(* integers (character codes of a text, the number, the fields of a        *)
(* timestamp).  A timestamp is <<year, month, day, tod>> and NaT is <<>>.  *)
(***************************************************************************)
EXTENDS Integers, Sequences, FiniteSets, TLC

\* Largest number of data rows of an uploaded file.
MaxRows == 2
\* Largest canonical series handed to the forecasting stages on their own.
MaxSeriesLen == 6

----------------------------------------------------------------------------
(* Calendar arithmetic, as pandas.Timestamp / pandas.DateOffset compute it. *)

NaT == <<>>

IsLeap(y) == (y % 4 = 0 /\ y % 100 # 0) \/ y % 400 = 0

DaysInMonth(y, m) ==
    IF m = 2 THEN (IF IsLeap(y) THEN 29 ELSE 28)
    ELSE IF m \in {4, 6, 9, 11} THEN 30 ELSE 31

Min(a, b) == IF a <= b THEN a ELSE b

\* Months since year 0 of a timestamp.
MonthIndex(t) == t[1] * 12 + (t[2] - 1)

\* t + pd.DateOffset(months=k): the month moves by k, the day is clamped to
\* the length of the target month, the time of day is kept.
DateOffset(t, months) ==
    IF t = NaT THEN NaT
    ELSE LET idx == MonthIndex(t) + months
             y   == idx \div 12
             m   == (idx % 12) + 1
         IN  <<y, m, Min(t[3], DaysInMonth(y, m)), t[4]>>

\* a < b on timestamps; every comparison with NaT is false.
TsLess(a, b) ==
    /\ a # NaT /\ b # NaT
    /\ \/ a[1] < b[1]
       \/ a[1] = b[1] /\ a[2] < b[2]
       \/ a[1] = b[1] /\ a[2] = b[2] /\ a[3] < b[3]
       \/ a[1] = b[1] /\ a[2] = b[2] /\ a[3] = b[3] /\ a[4] < b[4]

TsLeq(a, b) == a # NaT /\ b # NaT /\ (a = b \/ TsLess(a, b))

\* Series.max(): the largest non-NaT timestamp, NaT when there is none.
TsMax(S) ==
    LET real == S \ {NaT}
    IN  IF real = {} THEN NaT
        ELSE CHOOSE t \in real : \A u \in real : TsLeq(u, t)

----------------------------------------------------------------------------
(* Texts are tuples of character codes. *)

Ord(c) ==
    CASE c = "/" -> 47
      [] c = "0" -> 48
      [] c = "N" -> 78

IsDigit(code) == code \in Ord("0") .. (Ord("0") + 9)

DigitVal(code) == code - Ord("0")

Digit(v) == Ord("0") + v

\* C7 mutant: month first, '%m/%d/%Y'.
StrftimeMonthFirst(t) ==
    << Digit(t[2] \div 10), Digit(t[2] % 10), Ord("/"),
       Digit(t[3] \div 10), Digit(t[3] % 10), Ord("/"),
       Digit(t[1] \div 1000), Digit((t[1] \div 100) % 10),
       Digit((t[1] \div 10) % 10), Digit(t[1] % 10) >>

\* Timestamp.strftime('%d/%m/%Y'): zero-padded day, month, 4-digit year.
Strftime(t) ==
    << Digit(t[3] \div 10), Digit(t[3] % 10), Ord("/"),
       Digit(t[2] \div 10), Digit(t[2] % 10), Ord("/"),
       Digit(t[1] \div 1000), Digit((t[1] \div 100) % 10),
       Digit((t[1] \div 10) % 10), Digit(t[1] % 10) >>

\* The text has the shape NN/NN/NNNN.
IsDateText(s) ==
    /\ Len(s) = 10
    /\ s[3] = Ord("/") /\ s[6] = Ord("/")
    /\ \A i \in {1, 2, 4, 5, 7, 8, 9, 10} : IsDigit(s[i])

ValidDate(y, m, d) == m \in 1..12 /\ d \in 1..DaysInMonth(y, m)

\* The three numbers of a date text, in the order written.
Fields(s) ==
    << DigitVal(s[1]) * 10 + DigitVal(s[2]),
       DigitVal(s[4]) * 10 + DigitVal(s[5]),
       DigitVal(s[7]) * 1000 + DigitVal(s[8]) * 100
         + DigitVal(s[9]) * 10 + DigitVal(s[10]) >>

\* pd.to_datetime(text, dayfirst=True) on one text: the first number is the
\* day and the second the month; NaT stands for "cannot be parsed".
ParseDayFirst(s) ==
    IF ~IsDateText(s) THEN NaT
    ELSE LET f == Fields(s)
         IN  IF ValidDate(f[3], f[2], f[1]) THEN <<f[3], f[2], f[1], 0>>
             ELSE NaT

----------------------------------------------------------------------------
(* Cells, columns and the uploaded file. *)

Columns == <<"Date", "Calls", "Region">>

ColumnNames == {Columns[i] : i \in 1..Len(Columns)}

IntCell(v)   == [k |-> "int",   n |-> <<v>>]
\* A float is kept in tenths: 15 is 1.5.
FloatCell(t) == [k |-> "float", n |-> <<t>>]
BoolCell(b)  == [k |-> "bool",  n |-> <<b>>]
StrCell(s)   == [k |-> "str",   n |-> s]
NullCell     == [k |-> "null",  n |-> <<>>]
NaNCell      == [k |-> "nan",   n |-> <<>>]
TsCell(t)    == [k |-> "ts",    n |-> t]

\* Last observed dates the series are built around: month starts, month
\* ends of every length, leap-year February, a year boundary, and a date
\* whose day and month can be confused.
SampleDates ==
    { <<2023, 12,  1, 0>>, <<2024,  4,  3, 0>>, <<2024,  1, 31, 0>>,
      <<2024,  7, 31, 0>>, <<2023, 11, 30, 0>>, <<2024,  2, 29, 0>>,
      <<2023,  2, 28, 0>>, <<2024, 12, 31, 0>>, <<2024,  3, 15, 0>>,
      <<2024,  5, 30, 0>>, <<2023,  9, 29, 0>> }

\* The earlier of the two dates of an upload: six months before the last,
\* which is before the start of the forecast window.
EarlierDate(last) == DateOffset(last, -6)

\* A date as the files write it: dd/mm/yyyy.
Written(t) ==
    << Digit(t[3] \div 10), Digit(t[3] % 10), Ord("/"),
       Digit(t[2] \div 10), Digit(t[2] % 10), Ord("/"),
       Digit(t[1] \div 1000), Digit((t[1] \div 100) % 10),
       Digit((t[1] \div 10) % 10), Digit(t[1] % 10) >>

\* The date text of a row: "L" the last date, "P" the earlier one.
DateText(last, choice) ==
    IF choice = "L" THEN Written(last) ELSE Written(EarlierDate(last))

\* What may stand in the last row of the date column instead of a date.
Corruptions == {"none", "bad", "null"}

DateColumn(last, pattern, corrupt) ==
    [i \in 1..Len(pattern) |->
        IF i = Len(pattern) /\ corrupt = "bad" THEN StrCell(<<Ord("N")>>)
        ELSE IF i = Len(pattern) /\ corrupt = "null" THEN NullCell
        ELSE StrCell(DateText(last, pattern[i]))]

\* The numbers of the target column: -1, 2, -3, 4, ...
Num(i) == IF i % 2 = 1 THEN -i ELSE i

YKinds == {"int", "float", "null", "bool", "str"}

\* Target columns: integers; floats (-1.5, 3.0, ...); integers and a null
\* in the last row; booleans; integers after a text.
CallsColumn(kind, n) ==
    [i \in 1..n |->
        CASE kind = "int"   -> IntCell(Num(i))
          [] kind = "float" -> FloatCell(15 * Num(i))
          [] kind = "null"  -> IF i = n THEN NullCell ELSE IntCell(Num(i))
          [] kind = "bool"  -> BoolCell(i % 2)
          [] kind = "str"   -> IF i = 1 THEN StrCell(<<Ord("N")>>)
                               ELSE IntCell(Num(i))]

RegionColumn(n) == [i \in 1..n |-> StrCell(<<Ord("N")>>)]

NoCells == [Date |-> <<>>, Calls |-> <<>>, Region |-> <<>>]

\* The empty uploader: uploaded_file is None.
NoFile == [present |-> FALSE, ok |-> FALSE, cols |-> NoCells]

\* An upload that cannot be parsed as CSV.
Malformed == [present |-> TRUE, ok |-> FALSE, cols |-> NoCells]

WellFormed(last, pattern, corrupt, kind) ==
    [present |-> TRUE, ok |-> TRUE,
     cols |-> [Date   |-> DateColumn(last, pattern, corrupt),
               Calls  |-> CallsColumn(kind, Len(pattern)),
               Region |-> RegionColumn(Len(pattern))]]

Patterns(maxLen) == UNION {[1..n -> {"L", "P"}] : n \in 0..maxLen}

\* The last date of the uploads that vary the kinds of cells.
ReferenceDate == <<2023, 12, 1, 0>>

\* The last dates of the uploaded files.
UploadDates == {ReferenceDate, <<2024, 4, 3, 0>>, <<2024, 7, 31, 0>>}

\* The files of the model: an unreadable one; clean integer series around
\* every upload date; every kind of target column and every corruption of
\* the date column around the reference date.
Uploads ==
    {Malformed} \cup
    { WellFormed(last, pattern, "none", "int") :
        last \in UploadDates, pattern \in Patterns(MaxRows) } \cup
    { WellFormed(ReferenceDate, pattern, corrupt, kind) :
        pattern \in Patterns(MaxRows), corrupt \in Corruptions,
        kind \in YKinds }

NoColumn == [dtype |-> "object", vals |-> <<>>]

NoTable == [Date |-> NoColumn, Calls |-> NoColumn, Region |-> NoColumn]

Kinds(cells) == {cells[i].k : i \in 1..Len(cells)}

\* The dtype pd.read_csv infers for a column.
InferDtype(cells) ==
    IF Len(cells) = 0 THEN "object"
    ELSE IF Kinds(cells) \subseteq {"int"} THEN "int64"
    ELSE IF Kinds(cells) \subseteq {"int", "float", "null"} THEN "float64"
    ELSE IF Kinds(cells) \subseteq {"bool"} THEN "bool"
    ELSE "object"

\* The value a cell takes in a column of the given dtype: in a float64
\* column integers become floats and nulls NaN; elsewhere a null is NaN.
Coerce(dtype, cell) ==
    IF cell.k = "null" THEN NaNCell
    ELSE IF dtype = "float64" /\ cell.k = "int" THEN FloatCell(10 * cell.n[1])
    ELSE cell

\* One column as pd.read_csv returns it.
ReadColumn(cells) ==
    LET dtype == InferDtype(cells)
    IN  [dtype |-> dtype,
         vals  |-> [i \in 1..Len(cells) |-> Coerce(dtype, cells[i])]]

\* df = pd.read_csv(uploaded_file)
ReadCsv(f) ==
    [Date   |-> ReadColumn(f.cols.Date),
     Calls  |-> ReadColumn(f.cols.Calls),
     Region |-> ReadColumn(f.cols.Region)]

NumRows(table) == Len(table[Columns[1]].vals)

----------------------------------------------------------------------------
(* The stages of the "Confirm selection and process file" block. *)

\* A number read as nanoseconds since 1970-01-01; the fourth field is the
\* offset in nanoseconds from midnight (from the next midnight when < 0).
EpochNs(v) == IF v >= 0 THEN <<1970, 1, 1, v>> ELSE <<1969, 12, 31, v>>

\* Tenths to a whole number, towards zero.
Trunc(t) == IF t >= 0 THEN t \div 10 ELSE -((-t) \div 10)

\* pd.to_datetime on one value of a column.  NaN becomes NaT; a text is
\* parsed day first; a number is nanoseconds since the epoch.
ToTimestamp(cell) ==
    CASE cell.k = "str"   -> ParseDayFirst(cell.n)
      [] cell.k = "int"   -> EpochNs(cell.n[1])
      [] cell.k = "float" -> EpochNs(Trunc(cell.n[1]))
      [] OTHER            -> NaT

\* Whether pd.to_datetime raises on the column: a boolean column cannot be
\* converted, and in an object column every value that is not NaN must be
\* a date text (the object columns of the uploads hold a date text, NaN or
\* a text that is no date in every file that has another value in them).
ToDatetimeRaises(col) ==
    \/ col.dtype = "bool"
    \/ /\ col.dtype = "object"
       /\ \E i \in 1..Len(col.vals) :
            /\ col.vals[i].k # "nan"
            /\ (col.vals[i].k # "str" \/ ParseDayFirst(col.vals[i].n) = NaT)

\* pd.to_datetime(df[date_col], dayfirst=True)
ToDatetime(col) ==
    [dtype |-> "datetime64",
     vals  |-> [i \in 1..Len(col.vals) |->
                          TsCell(ToTimestamp(col.vals[i]))]]

\* C8 mutant: the converted column goes to a copy, the table is kept.
AssignColumnToCopy(table, c, col) == table

\* df[date_col] = ...: the column of the loaded table is replaced in place.
AssignColumn(table, c, col) == [table EXCEPT ![c] = col]

\* df[[date_col, y_col]].rename(columns={date_col: "ds", y_col: "y"}) raises
\* in sort_values("ds") when both names are the same column: the dict keeps
\* one key and no column is called "ds".
ProjectRaises(dc, yc) == dc = yc

\* The projected rows, each with its index label.
Project(table, dc, yc) ==
    [i \in 1..NumRows(table) |->
        [idx |-> i - 1, ds |-> table[dc].vals[i].n, y |-> table[yc].vals[i]]]

\* Ascending order of sort_values, NaT last.
Before(a, b) == TsLess(a, b) \/ (a # NaT /\ b = NaT)

IsSorted(rows) ==
    \A i, j \in 1..Len(rows) : i < j => ~Before(rows[j].ds, rows[i].ds)

Perms(n) == {p \in [1..n -> 1..n] : \A i, j \in 1..n : p[i] = p[j] => i = j}

Permute(rows, p) == [i \in 1..Len(rows) |-> rows[p[i]]]

\* C9 mutant: the rows are left in the order of the file.
SortValuesUnsorted(rows) == {rows}

\* .sort_values("ds"): kind defaults to "quicksort", which pandas documents
\* as not stable, so every ascending arrangement of the rows is a possible
\* result; which one depends on the numpy build.
SortValues(rows) ==
    {r \in {Permute(rows, p) : p \in Perms(Len(rows))} : IsSorted(r)}

\* C3 mutant: booleans are not taken as numeric.
IsNumericDtypeNoBool(dtype) == dtype \in {"int64", "float64"}

\* pd.api.types.is_numeric_dtype
IsNumericDtype(dtype) == dtype \in {"int64", "float64", "bool"}

\* Number of periods of make_future_dataframe.
ForecastPeriods == 3
\* Months before the last observation where the window starts.
WindowBack == 5
\* Months after the last observation where the window ends.
WindowAhead == 3

DsSet(rows) == {rows[i].ds : i \in 1..Len(rows)}

\* Prophet.fit raises with fewer than 2 rows whose y is not NaN, and when
\* one of those rows has no date.
FitRaises(rows) ==
    \/ Cardinality({i \in 1..Len(rows) : rows[i].y.k # "nan"}) < 2
    \/ \E i \in 1..Len(rows) : rows[i].y.k # "nan" /\ rows[i].ds = NaT

\* The timestamps of a set in ascending order, NaT last.
RECURSIVE Ascending(_)
Ascending(S) ==
    IF S = {} THEN <<>>
    ELSE LET first == CHOOSE t \in S : \A u \in S : ~Before(u, t)
         IN  <<first>> \o Ascending(S \ {first})

\* C6 mutant: one history date per row, repeated dates kept.
HistoryDatesPerRow(rows) == [i \in 1..Len(rows) |-> rows[i].ds]

\* Prophet keeps history_dates = df['ds'].unique(), sorted.
HistoryDates(rows) == Ascending(DsSet(rows))

\* pd.date_range(start, periods=n, freq='MS'): the start is rolled forward
\* to a month start unless it is one, then one month per step.
DateRangeMS(start, n) ==
    LET first == IF start[3] = 1 THEN start
                 ELSE LET next == MonthIndex(start) + 1
                      IN  <<next \div 12, (next % 12) + 1, 1, start[4]>>
    IN  [i \in 1..n |-> DateOffset(first, i - 1)]

Take(s, n) == SubSeq(s, 1, Min(n, Len(s)))

\* C10 mutant: the range starts at the last date without dropping it.
FutureDatesFromLast(last, periods) == DateRangeMS(last, periods)

\* The future part of make_future_dataframe: periods + 1 month starts from
\* the last history date, those after it, the first `periods` of them.
FutureDates(last, periods) ==
    IF last = NaT THEN <<>>
    ELSE Take(SelectSeq(DateRangeMS(last, periods + 1),
                        LAMBDA t : TsLess(last, t)), periods)

\* model.make_future_dataframe(periods=3, freq='MS'): history, then future.
MakeFutureDataframe(rows) ==
    HistoryDates(rows) \o FutureDates(TsMax(DsSet(rows)), ForecastPeriods)

\* model.predict raises on a frame with a missing date.
PredictRaises(future) == \E i \in 1..Len(future) : future[i] = NaT

\* model.predict(future): one forecast record per date of the frame, in its
\* order (the predicted numbers are Prophet's and are not modelled).
Predict(future) == future

\* C5 mutant: the window starts six months back.
WindowStartSixBack(last) == DateOffset(last, -6)

\* start_date = last_date - pd.DateOffset(months=5)
WindowStart(last) == DateOffset(last, -WindowBack)

\* end_date = last_date + pd.DateOffset(months=3)
WindowEnd(last) == DateOffset(last, WindowAhead)

\* C4 mutant: the end of the window is excluded.
InWindowOpenEnd(t, start, end) == TsLeq(start, t) /\ TsLess(t, end)

\* (forecast['ds'] >= start_date) & (forecast['ds'] <= end_date)
InWindow(t, start, end) == TsLeq(start, t) /\ TsLeq(t, end)

\* forecast[mask].copy() with the 'Date' column added.
FilterForecast(fc, start, end) ==
    LET kept == SelectSeq(fc, LAMBDA t : InWindow(t, start, end))
    IN  [i \in 1..Len(kept) |->
                   [ds |-> kept[i], Date |-> Strftime(kept[i])]]

\* forecast_filtered[['Date', 'yhat', 'yhat_lower', 'yhat_upper']]
ExportFrame(filtered) ==
    [i \in 1..Len(filtered) |-> filtered[i].Date]

----------------------------------------------------------------------------
(* State: the names of the script and what the page shows. *)

VARIABLES
    pc,                 \* where the last execution of the script ended
    uploaded_file,      \* the file in the uploader
    dfBound,            \* whether the name df is bound
    df,                 \* the loaded table
    date_col, y_col,    \* the two select boxes
    df_prophet,         \* the canonical series
    forecast,           \* the dates of the full forecast
    last_date, start_date, end_date,
    forecast_filtered,  \* the forecast inside the window, with 'Date'
    df_export,          \* the exported 'Date' column
    shown,              \* what the execution has displayed, in order
    err                 \* the call that raised in the process block

vars == <<pc, uploaded_file, dfBound, df, date_col, y_col, df_prophet,
          forecast, last_date, start_date, end_date, forecast_filtered,
          df_export, shown, err>>

\* The names assigned inside the process block, before it runs.
NoResults ==
    [df_prophet |-> <<>>, forecast |-> <<>>, last_date |-> NaT,
     start_date |-> NaT, end_date |-> NaT, forecast_filtered |-> <<>>,
     df_export |-> <<>>]

\* C1 mutant: the preview is not displayed.
PreviewHidden(sh) == sh

\* st.success / st.dataframe(df_prophet.head()): the canonical preview.
Preview(sh) == Append(sh, "preview")

\* The stages from model.fit to the end of the block, on a canonical series
\* that passed the numeric check.  fitOk and xlsOk say whether Prophet's fit
\* and the spreadsheet writer (writer.save() inside the with block, which
\* newer pandas versions no longer have) get through.
Forecasting(rows, sh, fitOk, xlsOk) ==
    LET base   == [NoResults EXCEPT !.df_prophet = rows]
        sh1    == Preview(sh)
        future == MakeFutureDataframe(rows)
        fc     == Predict(future)
        last   == TsMax(DsSet(rows))
        start  == WindowStart(last)
        end    == WindowEnd(last)
        filt   == FilterForecast(fc, start, end)
        full   == [base EXCEPT !.forecast = fc, !.last_date = last,
                                !.start_date = start, !.end_date = end,
                                !.forecast_filtered = filt,
                                !.df_export = ExportFrame(filt)]
        sh2    == Append(sh1, "forecast_table")
        sh3    == Append(sh2, "download")
        sh4    == Append(sh3, "plots")
    IN  IF FitRaises(rows) \/ ~fitOk
          THEN [res |-> base, pc |-> "error", err |-> "fit",
                shown |-> Append(sh1, "processing_error")]
        ELSE IF PredictRaises(future)
          THEN [res |-> base, pc |-> "error", err |-> "predict",
                shown |-> Append(sh1, "processing_error")]
        ELSE IF ~xlsOk
          THEN [res |-> full, pc |-> "error", err |-> "excel",
                shown |-> Append(sh2, "processing_error")]
        ELSE [res |-> full, pc |-> "done", err |-> "none", shown |-> sh4]

\* Lines 43-148 on a loaded table: the outcome of the process block.
\* sorted is the result of sort_values.
Process(table, dc, yc, sorted, sh, fitOk, xlsOk) ==
    IF ToDatetimeRaises(table[dc])
      THEN [df |-> table, res |-> NoResults, pc |-> "error",
            err |-> "to_datetime", shown |-> Append(sh, "processing_error")]
    ELSE LET df1 == AssignColumn(table, dc, ToDatetime(table[dc]))
         IN  IF ProjectRaises(dc, yc)
               THEN [df |-> df1, res |-> NoResults, pc |-> "error",
                     err |-> "sort_values",
                     shown |-> Append(sh, "processing_error")]
             ELSE IF ~IsNumericDtype(df1[yc].dtype)
               THEN [df |-> df1,
                     res |-> [NoResults EXCEPT !.df_prophet = sorted],
                     pc |-> "rejected", err |-> "none",
                     shown |-> Append(sh, "not_numeric")]
             ELSE [df |-> df1] @@ Forecasting(sorted, sh, fitOk, xlsOk)

\* What sort_values is applied to, when the block gets that far.
Projected(table, dc, yc) ==
    IF ToDatetimeRaises(table[dc]) \/ ProjectRaises(dc, yc) THEN <<>>
    ELSE Project(AssignColumn(table, dc, ToDatetime(table[dc])), dc, yc)

\* Whether the block gets to model.fit with a series Prophet accepts.
FitReached(table, dc, yc) ==
    /\ ~ToDatetimeRaises(table[dc])
    /\ ~ProjectRaises(dc, yc)
    /\ IsNumericDtype(table[yc].dtype)
    /\ ~FitRaises(Projected(table, dc, yc))

\* The outcomes of a call into a library: it returns or it raises, when it
\* is reached at all.
Outcomes(reached) == IF reached THEN BOOLEAN ELSE {TRUE}

Results(r) ==
    /\ df_prophet' = r.df_prophet
    /\ forecast' = r.forecast
    /\ last_date' = r.last_date
    /\ start_date' = r.start_date
    /\ end_date' = r.end_date
    /\ forecast_filtered' = r.forecast_filtered
    /\ df_export' = r.df_export

\* The executions in which the select boxes and the button were drawn.
Drawn == {"select", "done", "rejected", "error"}

Init ==
    /\ pc = "idle"
    /\ uploaded_file = NoFile
    /\ dfBound = FALSE
    /\ df = NoTable
    /\ date_col = Columns[1]
    /\ y_col = Columns[1]
    /\ df_prophet = <<>>
    /\ forecast = <<>>
    /\ last_date = NaT
    /\ start_date = NaT
    /\ end_date = NaT
    /\ forecast_filtered = <<>>
    /\ df_export = <<>>
    /\ shown = <<>>
    /\ err = "none"

\* Lines 26-40 with the button not pressed: read the file, show its head,
\* draw the select boxes.  When read_csv raises, the error is displayed and
\* line 37 then reads the unbound name df: NameError ends the execution.
Rerun(f, dc, yc) ==
    /\ uploaded_file' = f
    /\ Results(NoResults)
    /\ err' = "none"
    /\ IF f.ok
         THEN /\ dfBound' = TRUE
              /\ df' = ReadCsv(f)
              /\ date_col' = dc
              /\ y_col' = yc
              /\ shown' = <<"raw_preview", "widgets">>
              /\ pc' = "select"
         ELSE /\ dfBound' = FALSE
              /\ df' = NoTable
              /\ date_col' = Columns[1]
              /\ y_col' = Columns[1]
              /\ shown' = <<"load_error", "exception">>
              /\ pc' = "crash"

\* The user puts a file into the empty uploader (replacing a file is Remove
\* followed by Upload).
Upload(f) ==
    /\ pc = "idle"
    /\ Rerun(f, Columns[1], Columns[1])

\* The user removes the file: uploaded_file is None and nothing runs.
Remove ==
    /\ pc # "idle"
    /\ pc' = "idle"
    /\ uploaded_file' = NoFile
    /\ dfBound' = FALSE
    /\ df' = NoTable
    /\ date_col' = Columns[1]
    /\ y_col' = Columns[1]
    /\ Results(NoResults)
    /\ shown' = <<>>
    /\ err' = "none"

SelectDate(c) ==
    /\ pc \in Drawn
    /\ c # date_col
    /\ Rerun(uploaded_file, c, y_col)

SelectY(c) ==
    /\ pc \in Drawn
    /\ c # y_col
    /\ Rerun(uploaded_file, date_col, c)

\* The button: lines 26-148 in one execution.
Click ==
    /\ pc \in Drawn
    /\ LET table == ReadCsv(uploaded_file)
       IN  \E sorted \in SortValues(Projected(table, date_col, y_col)),
              fitOk \in Outcomes(FitReached(table, date_col, y_col)),
              xlsOk \in Outcomes(FitReached(table, date_col, y_col)) :
             LET out == Process(table, date_col, y_col, sorted,
                                <<"raw_preview", "widgets">>, fitOk, xlsOk)
             IN  /\ df' = out.df
                 /\ Results(out.res)
                 /\ pc' = out.pc
                 /\ err' = out.err
                 /\ shown' = out.shown
    /\ UNCHANGED <<uploaded_file, dfBound, date_col, y_col>>

Next ==
    \/ \E f \in Uploads : Upload(f)
    \/ Remove
    \/ \E c \in ColumnNames : SelectDate(c)
    \/ \E c \in ColumnNames : SelectY(c)
    \/ Click

Spec == Init /\ [][Next]_vars

----------------------------------------------------------------------------
(* The forecasting stages on their own: lines 54-146 applied to canonical   *)
(* series of up to MaxSeriesLen rows, as sort_values hands them over.       *)

\* The dates of a series around a last date: "O" six months before it (out
\* of the window), "S" five months before it (the window's start), "L".
SeriesDate(last, choice) ==
    CASE choice = "O" -> DateOffset(last, -6)
      [] choice = "S" -> DateOffset(last, -5)
      [] choice = "L" -> last

SeriesRows(last, pattern) ==
    [i \in 1..Len(pattern) |->
        [idx |-> i - 1, ds |-> SeriesDate(last, pattern[i]),
         y |-> IntCell(Num(i))]]

\* Canonical series: ascending by ds, repeated dates allowed.
CanonicalSeries ==
    { r \in { SeriesRows(last, pattern) :
                last \in SampleDates,
                pattern \in UNION {[1..n -> {"O", "S", "L"}] :
                                     n \in 0..MaxSeriesLen} } :
        IsSorted(r) }

InitSeries ==
    /\ pc = "series"
    /\ uploaded_file = NoFile
    /\ dfBound = FALSE
    /\ df = NoTable
    /\ date_col = Columns[1]
    /\ y_col = Columns[2]
    /\ df_prophet \in CanonicalSeries
    /\ forecast = <<>>
    /\ last_date = NaT
    /\ start_date = NaT
    /\ end_date = NaT
    /\ forecast_filtered = <<>>
    /\ df_export = <<>>
    /\ shown = <<"raw_preview", "widgets">>
    /\ err = "none"

ForecastSeries ==
    /\ pc = "series"
    /\ \E fitOk \in Outcomes(~FitRaises(df_prophet)),
          xlsOk \in Outcomes(~FitRaises(df_prophet)) :
         LET out == Forecasting(df_prophet, shown, fitOk, xlsOk)
         IN  /\ Results(out.res)
             /\ pc' = out.pc
             /\ err' = out.err
             /\ shown' = out.shown
    /\ UNCHANGED <<uploaded_file, dfBound, df, date_col, y_col>>

NextSeries == ForecastSeries

SpecForecast == InitSeries /\ [][NextSeries]_vars

----------------------------------------------------------------------------
(* Properties. *)

ShownSet == {shown[i] : i \in 1..Len(shown)}

\* The outputs of a press of the button.
RunOutputs == {"preview", "forecast_table", "download", "plots"}

ShownOutputs == ShownSet \cap RunOutputs

\* The last execution got past the numeric check of the target column.
Accepted == pc = "done" \/ err \in {"fit", "predict", "excel"}

\* The last execution got as far as the numeric check.
Validated == pc = "rejected" \/ Accepted

\* C1, as stated: a press of the button that fails at any stage has shown
\* none of its outputs.
C1_AllOrNothing == pc \in {"error", "rejected"} => ShownOutputs = {}

\* C1, amended: a failure up to the numeric check shows no output, a failure
\* of fit or predict leaves the canonical preview on the page, a failure of
\* the spreadsheet writer leaves the preview and the forecast table, and
\* all four outputs are shown exactly in the runs where every stage succeeds.
C1_OutputsUpToFailure ==
    /\ (err \in {"to_datetime", "sort_values"} \/ pc = "rejected")
          => ShownOutputs = {}
    /\ err \in {"fit", "predict"} => ShownOutputs = {"preview"}
    /\ err = "excel" => ShownOutputs = {"preview", "forecast_table"}
    /\ ShownOutputs = RunOutputs <=> pc = "done"

\* A run that failed in the spreadsheet writer with the table on the page.
C1_Witness ==
    /\ pc = "error" /\ err = "excel"
    /\ "forecast_table" \in ShownSet
    /\ Len(df_export) > 0

\* C2: after an upload that read_csv cannot parse, the run ends with the
\* load error reported: no table, no later stage run on it, and no
\* unhandled error.
C2_LoadFailureReported ==
    (uploaded_file.present /\ ~uploaded_file.ok) =>
        /\ ~dfBound
        /\ "load_error" \in ShownSet
        /\ "exception" \notin ShownSet
        /\ pc # "crash"

RawKinds(c) == Kinds(uploaded_file.cols[c])

\* C3, as stated: a target column with entries is accepted exactly when
\* every one of them is an integer or a float; a null among the numbers, a
\* boolean or a text makes the check reject it.
C3_AcceptsExactlyNumbers ==
    (Validated /\ Len(uploaded_file.cols[y_col]) > 0)
        => (Accepted <=> RawKinds(y_col) \subseteq {"int", "float"})

\* C3, amended: the target column is accepted exactly when it has at least
\* one row and either all its entries are integers, floats or nulls, or
\* all are booleans; a column with a text in it is rejected.
C3_AcceptsNumericDtype ==
    Validated =>
        (Accepted <=>
            /\ Len(uploaded_file.cols[y_col]) > 0
            /\ \/ RawKinds(y_col) \subseteq {"int", "float", "null"}
               \/ RawKinds(y_col) \subseteq {"bool"})

\* A boolean target column that passed the check.
C3_Witness == Accepted /\ RawKinds(y_col) = {"bool"}

\* The text 03/04/2024.
DayFirstExample == <<48, 51, 47, 48, 52, 47, 50, 48, 50, 52>>

\* C7: every exported Date text, read back day first, is the date of its
\* forecast record, and the text 03/04/2024 stands for 3 April 2024.
C7_ExportDateRoundTrip ==
    \A i \in 1..Len(forecast_filtered) :
        LET rec == forecast_filtered[i]
        IN  /\ df_export[i] = rec.Date
            /\ ParseDayFirst(rec.Date) = <<rec.ds[1], rec.ds[2], rec.ds[3], 0>>
            /\ rec.Date = DayFirstExample => rec.ds = <<2024, 4, 3, 0>>

\* An export that holds the text 03/04/2024, parsed from the upload.
C7_Witness ==
    /\ pc = "done"
    /\ \E i \in 1..Len(df_export) : df_export[i] = DayFirstExample
    /\ \E i \in 1..Len(uploaded_file.cols.Date) :
          uploaded_file.cols.Date[i].n = DayFirstExample

\* C8, as stated: the loaded table holds what read_csv produced.
C8_TableUnchanged == dfBound => df = ReadCsv(uploaded_file)

\* The last execution got past the conversion of the date column.
Converted == err = "sort_values" \/ Validated

\* C8, amended: a press of the button whose dates parse replaces the selected
\* date column of the loaded table by its timestamps, in place, and leaves
\* every other column as loaded; when the dates do not parse, and when the
\* button was not pressed, the whole table is as loaded.
C8_OnlyDateColumnReplaced ==
    dfBound =>
        LET loaded == ReadCsv(uploaded_file)
        IN  /\ \A c \in ColumnNames : c # date_col => df[c] = loaded[c]
            /\ ~Converted => df = loaded
            /\ Converted =>
                 /\ df[date_col].dtype = "datetime64"
                 /\ Len(df[date_col].vals) = Len(loaded[date_col].vals)
                 /\ \A i \in 1..Len(df[date_col].vals) :
                      df[date_col].vals[i].k = "ts"

\* A finished run whose table no longer holds the date texts.
C8_Witness ==
    /\ pc = "done"
    /\ df.Date.dtype = "datetime64"
    /\ ReadCsv(uploaded_file).Date.dtype = "object"
    /\ df.Calls = ReadCsv(uploaded_file).Calls

\* The canonical series is the selected pair of columns of the upload, one
\* row per row of the file, in some order.
IsProjection ==
    /\ Len(df_prophet) = Len(uploaded_file.cols[date_col])
    /\ {df_prophet[i].idx : i \in 1..Len(df_prophet)} = 0..(Len(df_prophet) - 1)
    /\ \A i \in 1..Len(df_prophet) :
          LET r == df_prophet[i]
          IN  /\ DOMAIN r = {"idx", "ds", "y"}
              /\ r.ds = ToTimestamp(
                          Coerce("object", uploaded_file.cols[date_col][r.idx + 1]))
              /\ r.y = df[y_col].vals[r.idx + 1]

IsAscending ==
    \A i, j \in 1..Len(df_prophet) :
        i < j => \/ TsLeq(df_prophet[i].ds, df_prophet[j].ds)
                 \/ df_prophet[j].ds = NaT

\* C9, as stated: the canonical series is the two selected columns, sorted
\* ascending by timestamp, with equal timestamps in the order of the file.
C9_StableSortedProjection ==
    Validated =>
        /\ IsProjection
        /\ IsAscending
        /\ \A i, j \in 1..Len(df_prophet) :
              (i < j /\ df_prophet[i].ds = df_prophet[j].ds)
                 => df_prophet[i].idx < df_prophet[j].idx

\* C9, amended: the canonical series is the two selected columns, one row
\* per row of the file, sorted ascending by timestamp; the order of rows
\* with equal timestamps is not fixed.
C9_SortedProjection == Validated => IsProjection /\ IsAscending

\* A canonical series whose first row is not the first row of the file.
C9_Witness ==
    /\ pc = "done"
    /\ Len(df_prophet) >= 2
    /\ df_prophet[1].idx # 0
    /\ TsLess(df_prophet[1].ds, df_prophet[2].ds)

----------------------------------------------------------------------------
(* Properties of the forecasting stages. *)

\* The last execution computed the forecast, its window and the export.
Forecasted == pc = "done" \/ err = "excel"

FilteredDs == [i \in 1..Len(forecast_filtered) |-> forecast_filtered[i].ds]

LastObserved == TsMax(DsSet(df_prophet))

\* C4: the windowed forecast is a run of consecutive records of the full
\* forecast, ascending by timestamp, and holds exactly the records with
\* last - 5 months <= timestamp <= last + 3 months.
C4_WindowIsContiguousRange ==
    Forecasted =>
        LET start == DateOffset(LastObserved, -5)
            end   == DateOffset(LastObserved, 3)
            kept  == {i \in 1..Len(forecast) :
                        TsLeq(start, forecast[i]) /\ TsLeq(forecast[i], end)}
        IN  /\ \E a \in 1..(Len(forecast) + 1), b \in 0..Len(forecast) :
                  /\ kept = a..b
                  /\ FilteredDs = SubSeq(forecast, a, b)
            /\ \A i, j \in 1..Len(FilteredDs) :
                  i < j => TsLess(FilteredDs[i], FilteredDs[j])

\* A window that drops history before its start and keeps the record dated
\* exactly at its start and the one dated exactly at its end.
C4_Witness ==
    /\ pc = "done"
    /\ Len(forecast_filtered) < Len(forecast)
    /\ FilteredDs[1] = start_date
    /\ FilteredDs[Len(FilteredDs)] = end_date

\* C5, as stated: the end of the window is its start shifted forward by 8
\* calendar months.
C5_EndIsStartPlusEight == Forecasted => end_date = DateOffset(start_date, 8)

\* C5, amended: the end of the window lies in the eighth calendar month
\* after the month of its start; it is the start shifted forward by 8
\* months whenever the last observed day is at most 28, and otherwise the
\* shifted start falls on the end or up to 3 days before it.
C5_WindowSpansEightMonths ==
    Forecasted =>
        LET shifted == DateOffset(start_date, 8)
        IN  /\ last_date = LastObserved
            /\ MonthIndex(start_date) + 5 = MonthIndex(last_date)
            /\ MonthIndex(end_date) = MonthIndex(start_date) + 8
            /\ last_date[3] <= 28 => end_date = shifted
            /\ shifted[3] <= end_date[3] /\ end_date[3] - shifted[3] <= 3

\* The window around 31 July 2024: from 29 February to 31 October.
C5_Witness ==
    /\ pc = "done"
    /\ last_date = <<2024, 7, 31, 0>>
    /\ start_date = <<2024, 2, 29, 0>>
    /\ end_date = <<2024, 10, 31, 0>>

\* The k-th month start after a timestamp.
MonthStartAfter(t, k) ==
    <<(MonthIndex(t) + k) \div 12, ((MonthIndex(t) + k) % 12) + 1, 1, t[4]>>

\* The forecast ends with the next 3 month starts after the last date.
EndsWithNextMonthStarts ==
    /\ Len(forecast) >= 3
    /\ \A k \in 1..3 :
          forecast[Len(forecast) - 3 + k] = MonthStartAfter(LastObserved, k)
    /\ \A i \in 1..Len(forecast) :
          TsLess(LastObserved, forecast[i]) <=> i > Len(forecast) - 3

\* C6, as stated: for a series of at least 2 rows the forecast has at least
\* as many records as the series, holds the timestamps of the series, and
\* ends with exactly 3 records after the last one, the next 3 month starts.
C6_ForecastKeepsEveryRow ==
    (Forecasted /\ Len(df_prophet) >= 2) =>
        /\ Len(forecast) >= Len(df_prophet)
        /\ \A i \in 1..Len(df_prophet) :
              \E j \in 1..Len(forecast) : forecast[j] = df_prophet[i].ds
        /\ EndsWithNextMonthStarts

\* C6, amended: the forecast holds one record per distinct timestamp of
\* the series, in ascending order, followed by exactly 3 records after the
\* last one, the next 3 month starts; its length is the number of distinct
\* timestamps plus 3, which repeated timestamps make less than the number
\* of rows.
C6_ForecastPerDistinctDate ==
    (Forecasted /\ Len(df_prophet) >= 2) =>
        /\ Len(forecast) = Cardinality(DsSet(df_prophet)) + 3
        /\ {forecast[i] : i \in 1..(Len(forecast) - 3)} = DsSet(df_prophet)
        /\ \A i, j \in 1..Len(forecast) :
              i < j => TsLess(forecast[i], forecast[j])
        /\ EndsWithNextMonthStarts

\* Six rows on two dates forecast to five records.
C6_Witness ==
    /\ pc = "done"
    /\ Len(df_prophet) = 6
    /\ Cardinality(DsSet(df_prophet)) = 2
    /\ Len(forecast) = 5

\* C10: the 3 future records lie after the last observed date and not after
\* last + 3 months, so they are in the window and in the export, which is
\* never empty after a successful fit.
C10_FutureInsideWindow ==
    Forecasted =>
        /\ Len(forecast) >= 3
        /\ Len(df_export) >= 3
        /\ Len(df_export) = Len(forecast_filtered)
        /\ \A k \in 1..3 :
              LET t == forecast[Len(forecast) - 3 + k]
              IN  /\ TsLess(LastObserved, t)
                  /\ TsLeq(t, DateOffset(LastObserved, 3))
                  /\ forecast_filtered[Len(forecast_filtered) - 3 + k].ds = t
                  /\ df_export[Len(df_export) - 3 + k] = Strftime(t)

\* Last observation 2023-12-01: the window is 2023-07-01 to 2024-03-01 and
\* the export ends with January, February and March 2024.
C10_Witness ==
    /\ pc = "done"
    /\ last_date = <<2023, 12, 1, 0>>
    /\ start_date = <<2023, 7, 1, 0>>
    /\ end_date = <<2024, 3, 1, 0>>
    /\ Len(forecast_filtered) >= 3
    /\ forecast_filtered[Len(forecast_filtered)].ds = <<2024, 3, 1, 0>>
    /\ forecast_filtered[Len(forecast_filtered) - 2].ds = <<2024, 1, 1, 0>>

====
